---------------------------- MODULE Spec2Model ----------------------------
(***************************************************************************)
(* A model of fermipy's naming layer (fermipy/diffuse/name_policy.py) and  *)
(* of its WCS helpers (fermipy/wcs_utils.py).                              *)
(*                                                                         *)
(* Python strings are sequences of atoms: the atom "_" is the underscore   *)
(* and every other atom is a non-empty run of characters holding no        *)
(* underscore; two such runs are never adjacent (Concat joins them), so a  *)
(* string has exactly one representation.  Python values are records       *)
(* tagged with their type, a dict is a function on a set of key names and  *)
(* the outcome of a call is either a returned value or a raised exception. *)
(***************************************************************************)
EXTENDS Integers, Sequences, FiniteSets, TLC

VARIABLES base_dict,    \* NameFactory.base_dict
          ctor_kwargs,  \* history: the kwargs the constructor was given
          yaml_files,   \* history: the mappings update_base_dict has loaded
          call,         \* the last operation called, with its arguments
          result        \* the outcome of the last operation

vars == <<base_dict, ctor_kwargs, yaml_files, call, result>>

---------------------------------------------------------------------------
(* Bounds of the model.                                                    *)

\* keys left out of an otherwise complete constructor context
MaxDrop == 1
\* keyword arguments of one call (the fullpath flag not counted)
MaxOver == 1
\* update_base_dict calls in one run
MaxUpdates == 2

---------------------------------------------------------------------------
(* Python strings, values, outcomes and dicts.                             *)

Concat(a, b) ==
    IF a # <<>> /\ b # <<>> /\ a[Len(a)] # "_" /\ b[1] # "_"
    THEN SubSeq(a, 1, Len(a) - 1) \o <<a[Len(a)] \o b[1]>> \o Tail(b)
    ELSE a \o b

\* str.split('_'): the list of the (possibly empty) strings between underscores
RECURSIVE Split(_)
Split(s) ==
    IF s = <<>> THEN << <<>> >>
    ELSE LET rest == Split(Tail(s))
         IN  IF Head(s) = "_" THEN << <<>> >> \o rest
             ELSE << Concat(<<Head(s)>>, rest[1]) >> \o Tail(rest)

PyStr(s) == [t |-> "str", s |-> s]
PyBool(b) == [t |-> "bool", b |-> b]
None == [t |-> "none"]

\* str(v), as format() and the % operator apply it
Str(v) ==
    CASE v.t = "str" -> v.s
      [] v.t = "none" -> <<"None">>
      [] v.t = "bool" -> IF v.b THEN <<"True">> ELSE <<"False">>

\* truth value of a Python object
Truthy(v) ==
    CASE v.t = "str" -> v.s # <<>>
      [] v.t = "none" -> FALSE
      [] v.t = "bool" -> v.b

Return(v) == [kind |-> "return", val |-> v]
Raise(exc, arg) == [kind |-> "raise", exc |-> exc, arg |-> arg]

EmptyDict == [k \in {} |-> None]

\* d.update(**o) on a copy of d
Update(d, o) ==
    [k \in DOMAIN d \cup DOMAIN o |-> IF k \in DOMAIN o THEN o[k] ELSE d[k]]

\* d[key] = v on a copy of d
SetItem(d, key, v) ==
    [k \in DOMAIN d \cup {key} |-> IF k = key THEN v ELSE d[k]]

\* d.get(key, default)
Get(d, key, default) == IF key \in DOMAIN d THEN d[key] ELSE default

Lit(s) == [lit |-> s]
Fld(k) == [key |-> k]
IsFld(p) == "key" \in DOMAIN p

\* template.format(**ctx): the fields are looked up left to right, and the
\* first one that ctx does not hold raises KeyError
RECURSIVE FormatFrom(_, _, _, _)
FormatFrom(tpl, ctx, i, acc) ==
    IF i > Len(tpl) THEN Return(PyStr(acc))
    ELSE IF IsFld(tpl[i])
         THEN IF tpl[i].key \in DOMAIN ctx
              THEN FormatFrom(tpl, ctx, i + 1, Concat(acc, Str(ctx[tpl[i].key])))
              ELSE Raise("KeyError", <<tpl[i].key>>)
         ELSE FormatFrom(tpl, ctx, i + 1, Concat(acc, tpl[i].lit))

Format(tpl, ctx) == FormatFrom(tpl, ctx, 1, <<>>)

---------------------------------------------------------------------------
(* The lookup tables and the format templates of NameFactory.              *)

\* DATASET_DICTIONARY = dict(P8_P302='P8R2')
DATASET_DICTIONARY == [k \in {<<"P8", "_", "P302">>} |-> <<"P8R2">>]

\* EVCLASS_NAME_DICTIONARY
EVCLASS_NAME_DICTIONARY ==
    [k \in {<<"source">>, <<"clean">>, <<"ultraclean">>, <<"ultracleanveto">>} |->
        CASE k = <<"source">> -> <<"SOURCE">>
          [] k = <<"clean">> -> <<"CLEAN">>
          [] k = <<"ultraclean">> -> <<"ULTRACLEAN">>
          [] k = <<"ultracleanveto">> -> <<"ULTRACLEANVETO">>]

U == Lit(<<"_">>)

dataset_format ==
    <<Fld("data_pass"), U, Fld("data_ver"), U, Fld("data_time"), U, Fld("evclass")>>
component_format == <<Fld("zcut"), U, Fld("ebin"), U, Fld("psftype")>>
sourcekey_format == <<Fld("source_name"), U, Fld("source_ver")>>
galprop_ringkey_format == <<Fld("source_name"), U, Fld("ringkey")>>
galprop_sourcekey_format == <<Fld("source_name"), U, Fld("galpropkey")>>
merged_sourcekey_format == <<Fld("catalog"), U, Fld("rulekey")>>

galprop_gasmap_format ==
    <<Lit(<<"gasmap/">>), Fld("sourcekey"), U, Fld("projtype"), U,
      Fld("galprop_run"), U, Fld("maptype"), Lit(<<".fits">>)>>
merged_gasmap_format ==
    <<Lit(<<"merged", "_", "gasmaps/">>), Fld("sourcekey"), U, Fld("projtype"), U,
      Fld("maptype"), Lit(<<".fits.gz">>)>>
diffuse_template_format ==
    <<Lit(<<"templates/template", "_">>), Fld("sourcekey"), Lit(<<".fits">>)>>
spectral_template_format ==
    <<Lit(<<"templates/spectral", "_">>), Fld("sourcekey"), Lit(<<".fits">>)>>
srcmdl_xml_format == <<Lit(<<"srcmdls/">>), Fld("sourcekey"), Lit(<<".xml">>)>>
nested_srcmdl_xml_format ==
    <<Lit(<<"srcmdls/">>), Fld("sourcekey"), Lit(<<"_", "sources.xml">>)>>
ft1file_format == <<Fld("dataset"), U, Fld("zcut"), Lit(<<".lst">>)>>
ft2file_format == <<Lit(<<"ft2", "_">>), Fld("data_time"), Lit(<<".lst">>)>>
ltcube_format ==
    <<Lit(<<"lt", "_", "cubes/ltcube", "_">>), Fld("data_time"), U, Fld("zcut"),
      Lit(<<".fits">>)>>
ccube_format ==
    <<Lit(<<"counts", "_", "cubes/ccube", "_">>), Fld("dataset"), U,
      Fld("component"), U, Fld("coordsys"), Lit(<<".fits">>)>>
bexpcube_format ==
    <<Lit(<<"bexp", "_", "cubes/bexcube", "_">>), Fld("dataset"), U,
      Fld("component"), U, Fld("coordsys"), U, Fld("irf_ver"), Lit(<<".fits">>)>>
srcmaps_format ==
    <<Lit(<<"srcmaps/srcmaps", "_">>), Fld("sourcekey"), U, Fld("dataset"), U,
      Fld("component"), U, Fld("coordsys"), U, Fld("irf_ver"), Lit(<<".fits">>)>>
mcube_format ==
    <<Lit(<<"model", "_", "cubes/mcube", "_">>), Fld("sourcekey"), U,
      Fld("dataset"), U, Fld("component"), U, Fld("coordsys"), U, Fld("irf_ver"),
      Lit(<<".fits">>)>>
merged_srcmaps_format ==
    <<Lit(<<"analysis/model", "_">>), Fld("modelkey"), Lit(<<"/srcmaps", "_">>),
      Fld("dataset"), U, Fld("component"), U, Fld("coordsys"), U, Fld("irf_ver"),
      Lit(<<".fits">>)>>
master_srcmdl_xml_format ==
    <<Lit(<<"analysis/model", "_">>), Fld("modelkey"), Lit(<<"/srcmdl", "_">>),
      Fld("modelkey"), Lit(<<"_", "master.xml">>)>>
comp_srcmdl_xml_format ==
    <<Lit(<<"analysis/model", "_">>), Fld("modelkey"), Lit(<<"/srcmdl", "_">>),
      Fld("modelkey"), U, Fld("component"), Lit(<<".xml">>)>>
fullpath_format == <<Fld("basedir"), Lit(<<"/">>), Fld("localpath")>>

---------------------------------------------------------------------------
(* The operations of NameFactory.  Each takes the base context and the     *)
(* keyword arguments of the call and gives the outcome of the call.        *)

\* KeyOrNone without its try/except: the KeyError leaves the call
KeyOrNone_NoExcept(tpl, base, kwargs) == Format(tpl, Update(base, kwargs))

\* try: return template.format(**kwargs_copy)  except KeyError: return None
KeyOrNone(tpl, base, kwargs) ==
    LET kwargs_copy == Update(base, kwargs)
        r == Format(tpl, kwargs_copy)
    IN  IF r.kind = "raise" /\ r.exc = "KeyError" THEN Return(None) ELSE r

dataset(base, kwargs) == KeyOrNone(dataset_format, base, kwargs)
component(base, kwargs) == KeyOrNone(component_format, base, kwargs)
sourcekey(base, kwargs) == KeyOrNone(sourcekey_format, base, kwargs)
galprop_ringkey(base, kwargs) == KeyOrNone(galprop_ringkey_format, base, kwargs)
galprop_sourcekey(base, kwargs) == KeyOrNone(galprop_sourcekey_format, base, kwargs)
merged_sourcekey(base, kwargs) == KeyOrNone(merged_sourcekey_format, base, kwargs)

\* return NameFactory.fullpath_format.format(**kwargs_copy)
fullpath(base, kwargs) == Format(fullpath_format, Update(base, kwargs))

\* the tail shared by the file-path operations: format the template and, when
\* kwargs.get('fullpath', False) is true, return self.fullpath(localpath=localpath)
LocalOrFull(tpl, base, kwargs, kwargs_copy) ==
    LET localpath == Format(tpl, kwargs_copy)
    IN  IF localpath.kind = "raise" THEN localpath
        ELSE IF Truthy(Get(kwargs, "fullpath", PyBool(FALSE)))
             THEN fullpath(base, [k \in {"localpath"} |-> localpath.val])
             ELSE localpath

\* kwargs_copy['dataset'] = self.dataset(**kwargs), whatever the call passes
WithDataset_AlwaysDerive(base, kwargs, kwargs_copy) ==
    SetItem(kwargs_copy, "dataset", dataset(base, kwargs).val)

\* kwargs_copy['dataset'] = kwargs.get('dataset', self.dataset(**kwargs))
WithDataset(base, kwargs, kwargs_copy) ==
    SetItem(kwargs_copy, "dataset", Get(kwargs, "dataset", dataset(base, kwargs).val))

\* kwargs_copy['component'] = kwargs.get('component', self.component(**kwargs))
WithComponent(base, kwargs, kwargs_copy) ==
    SetItem(kwargs_copy, "component",
            Get(kwargs, "component", component(base, kwargs).val))

\* the operations that format the merged context as it is
PlainFile(tpl, base, kwargs) == LocalOrFull(tpl, base, kwargs, Update(base, kwargs))

\* the operations that set kwargs_copy['dataset'] first
DatasetFile(tpl, base, kwargs) ==
    LocalOrFull(tpl, base, kwargs, WithDataset(base, kwargs, Update(base, kwargs)))

\* the operations that set kwargs_copy['dataset'] and kwargs_copy['component']
DatasetComponentFile(tpl, base, kwargs) ==
    LocalOrFull(tpl, base, kwargs,
        WithComponent(base, kwargs, WithDataset(base, kwargs, Update(base, kwargs))))

galprop_gasmap(base, kwargs) == PlainFile(galprop_gasmap_format, base, kwargs)
merged_gasmap(base, kwargs) == PlainFile(merged_gasmap_format, base, kwargs)
diffuse_template(base, kwargs) == PlainFile(diffuse_template_format, base, kwargs)
spectral_template(base, kwargs) == PlainFile(spectral_template_format, base, kwargs)
srcmdl_xml(base, kwargs) == PlainFile(srcmdl_xml_format, base, kwargs)
nested_srcmdl_xml(base, kwargs) == PlainFile(nested_srcmdl_xml_format, base, kwargs)
master_srcmdl_xml(base, kwargs) == PlainFile(master_srcmdl_xml_format, base, kwargs)

ft1file(base, kwargs) == DatasetFile(ft1file_format, base, kwargs)
ltcube(base, kwargs) == DatasetFile(ltcube_format, base, kwargs)

\* kwargs_copy['data_time'] = kwargs.get('data_time', self.dataset(**kwargs))
ft2file(base, kwargs) ==
    LocalOrFull(ft2file_format, base, kwargs,
        SetItem(Update(base, kwargs), "data_time",
                Get(kwargs, "data_time", dataset(base, kwargs).val)))

ccube(base, kwargs) == DatasetComponentFile(ccube_format, base, kwargs)
bexpcube(base, kwargs) == DatasetComponentFile(bexpcube_format, base, kwargs)
srcmaps(base, kwargs) == DatasetComponentFile(srcmaps_format, base, kwargs)
mcube(base, kwargs) == DatasetComponentFile(mcube_format, base, kwargs)
merged_srcmaps(base, kwargs) == DatasetComponentFile(merged_srcmaps_format, base, kwargs)
comp_srcmdl_xml(base, kwargs) == DatasetComponentFile(comp_srcmdl_xml_format, base, kwargs)

\* return input_string.format(**kwargs_copy), no fullpath handling
generic(input_string, base, kwargs) ==
    Format(input_string,
        WithComponent(base, kwargs, WithDataset(base, kwargs, Update(base, kwargs))))

\* tokens[i] of a Python list: IndexError past its end
Index(tokens, i) ==
    IF i + 1 <= Len(tokens) THEN Return(PyStr(tokens[i + 1]))
    ELSE Raise("IndexError", <<"list index out of range">>)

\* Lookup as table.get(key, key): an unknown key passes through
Lookup_PassThrough(table, key) ==
    IF key \in DOMAIN table THEN Return(PyStr(table[key])) ELSE Return(PyStr(key))

\* table[key]: KeyError for a key the table does not hold
Lookup(table, key) ==
    IF key \in DOMAIN table THEN Return(PyStr(table[key])) ELSE Raise("KeyError", key)

irfs(base, kwargs) ==
    LET dsval == Get(kwargs, "dataset", dataset(base, kwargs).val)
    IN  IF dsval.t # "str" THEN Raise("AttributeError", <<"split">>)
        ELSE
        LET tokens == Split(dsval.s)
            t0 == Index(tokens, 0)
            t1 == Index(tokens, 1)
            t3 == Index(tokens, 3)
        IN  IF t0.kind = "raise" THEN t0
            ELSE IF t1.kind = "raise" THEN t1
            ELSE
            LET family == Lookup(DATASET_DICTIONARY,
                                 Concat(Concat(t0.val.s, <<"_">>), t1.val.s))
            IN  IF family.kind = "raise" THEN family
                ELSE IF t3.kind = "raise" THEN t3
                ELSE
                LET evname == Lookup(EVCLASS_NAME_DICTIONARY, t3.val.s)
                IN  IF evname.kind = "raise" THEN evname
                    ELSE Return(PyStr(
                        Concat(Concat(Concat(Concat(family.val.s, <<"_">>),
                                             evname.val.s), <<"_">>),
                               Str(Get(kwargs, "irf_ver", None)))))

\* make_filenames with the ltcube entry filled from ft1file and no srcmaps entry
make_filenames_Slip(base, kwargs) ==
    LET r1 == ft1file(base, kwargs)
        r3 == ccube(base, kwargs)
        r4 == bexpcube(base, kwargs)
        r6 == mcube(base, kwargs)
    IN  IF r1.kind = "raise" THEN r1
        ELSE IF r3.kind = "raise" THEN r3
        ELSE IF r4.kind = "raise" THEN r4
        ELSE IF r6.kind = "raise" THEN r6
        ELSE Return([t |-> "dict",
                     d |-> [ft1file |-> r1.val, ltcube |-> r1.val, ccube |-> r3.val,
                            bexpcube |-> r4.val, mcube |-> r6.val]])

\* out_dict = dict(ft1file=self.ft1file(**kwargs), ...): the six calls are made in
\* this order and the first exception ends the call
make_filenames(base, kwargs) ==
    LET r1 == ft1file(base, kwargs)
        r2 == ltcube(base, kwargs)
        r3 == ccube(base, kwargs)
        r4 == bexpcube(base, kwargs)
        r5 == srcmaps(base, kwargs)
        r6 == mcube(base, kwargs)
    IN  IF r1.kind = "raise" THEN r1
        ELSE IF r2.kind = "raise" THEN r2
        ELSE IF r3.kind = "raise" THEN r3
        ELSE IF r4.kind = "raise" THEN r4
        ELSE IF r5.kind = "raise" THEN r5
        ELSE IF r6.kind = "raise" THEN r6
        ELSE Return([t |-> "dict",
                     d |-> [ft1file |-> r1.val, ltcube |-> r2.val, ccube |-> r3.val,
                            bexpcube |-> r4.val, srcmaps |-> r5.val, mcube |-> r6.val]])

\* self.base_dict = kwargs.copy()
NameFactoryInit(kwargs) == kwargs

\* self.base_dict.update(**yaml.safe_load(open(yamlfile)))
update_base_dict(base, yaml) == Update(base, yaml)

---------------------------------------------------------------------------
(* The contexts the model draws its inputs from.                           *)

Keys ==
    {"data_pass", "data_ver", "data_time", "evclass", "zcut", "ebin", "psftype",
     "dataset", "component", "coordsys", "irf_ver", "sourcekey", "source_name",
     "source_ver", "ringkey", "galpropkey", "catalog", "rulekey", "modelkey",
     "projtype", "galprop_run", "maptype", "basedir", "localpath", "fullpath"}

\* the keys a pipeline sets itself; the others are composed or passed per call
ExtraKeys == {"dataset", "component", "localpath", "fullpath"}
RawKeys == Keys \ ExtraKeys

\* the value a constructor context gives a key
CtorValue(k) ==
    CASE k = "data_pass" -> PyStr(<<"P8">>)
      [] k = "data_ver" -> PyStr(<<"P302">>)
      [] k = "data_time" -> PyStr(<<"8years">>)
      [] k = "evclass" -> PyStr(<<"source">>)
      [] k = "zcut" -> PyStr(<<"zmax105">>)
      [] k = "ebin" -> PyStr(<<"E3">>)
      [] k = "psftype" -> PyStr(<<"PSF3">>)
      [] k = "dataset" -> PyStr(<<"P8", "_", "P302", "_", "6years", "_", "clean">>)
      [] k = "component" -> PyStr(<<"zmax100", "_", "E1", "_", "ALL">>)
      [] k = "coordsys" -> PyStr(<<"GAL">>)
      [] k = "irf_ver" -> PyStr(<<"V6">>)
      [] k = "sourcekey" -> PyStr(<<"loopI", "_", "v00">>)
      [] k = "source_name" -> PyStr(<<"loopI">>)
      [] k = "source_ver" -> PyStr(<<"v00">>)
      [] k = "ringkey" -> PyStr(<<"ring11">>)
      [] k = "galpropkey" -> PyStr(<<"ref">>)
      [] k = "catalog" -> PyStr(<<"3FGL">>)
      [] k = "rulekey" -> PyStr(<<"faint">>)
      [] k = "modelkey" -> PyStr(<<"baseline">>)
      [] k = "projtype" -> PyStr(<<"healpix">>)
      [] k = "galprop_run" -> PyStr(<<"run0">>)
      [] k = "maptype" -> PyStr(<<"CO">>)
      [] k = "basedir" -> PyStr(<<"/data">>)
      [] k = "localpath" -> PyStr(<<"old.fits">>)
      [] k = "fullpath" -> PyBool(TRUE)

\* the values a call may pass for a key
CallValues(k) ==
    CASE k = "data_pass" -> {PyStr(<<"P7">>)}
      [] k = "data_ver" -> {PyStr(<<"P301">>)}
      [] k = "data_time" -> {PyStr(<<"4years">>)}
      [] k = "evclass" -> {PyStr(<<"ultraclean">>), PyStr(<<"foo">>)}
      [] k = "zcut" -> {PyStr(<<"zmax90">>)}
      [] k = "ebin" -> {PyStr(<<"E0">>)}
      [] k = "psftype" -> {PyStr(<<"PSF0">>)}
      [] k = "dataset" ->
            {PyStr(<<"P8", "_", "P302", "_", "2years", "_", "ultracleanveto">>),
             PyStr(<<"P8", "_", "P302", "_", "2years", "_", "foo">>),
             PyStr(<<"P8", "_", "P305", "_", "2years", "_", "source">>)}
      [] k = "component" -> {PyStr(<<"zmax80", "_", "E2", "_", "PSF1">>)}
      [] k = "coordsys" -> {PyStr(<<"CEL">>)}
      [] k = "irf_ver" -> {PyStr(<<"V1">>)}
      [] k = "sourcekey" -> {PyStr(<<"bubbles", "_", "v01">>)}
      [] k = "source_name" -> {PyStr(<<"bubbles">>)}
      [] k = "source_ver" -> {PyStr(<<"v01">>)}
      [] k = "ringkey" -> {PyStr(<<"ring2">>)}
      [] k = "galpropkey" -> {PyStr(<<"alt">>)}
      [] k = "catalog" -> {PyStr(<<"2FHL">>)}
      [] k = "rulekey" -> {PyStr(<<"bright">>)}
      [] k = "modelkey" -> {PyStr(<<"variant">>)}
      [] k = "projtype" -> {PyStr(<<"wcs">>)}
      [] k = "galprop_run" -> {PyStr(<<"run1">>)}
      [] k = "maptype" -> {PyStr(<<"HI">>)}
      [] k = "basedir" -> {PyStr(<<"/scratch">>)}
      [] k = "localpath" -> {PyStr(<<"new.fits">>)}
      [] k = "fullpath" -> {PyBool(TRUE), PyBool(FALSE)}

\* the subsets of S of at most n elements
RECURSIVE SubsetsUpTo(_, _)
SubsetsUpTo(S, n) ==
    IF n = 0 THEN {{}}
    ELSE LET P == SubsetsUpTo(S, n - 1)
         IN  P \cup {T \cup {x} : T \in P, x \in S}

\* the constructor contexts: every raw key but at most MaxDrop, or every raw key
\* and one of the others, or one key, or none
CtorDicts ==
    {[k \in RawKeys \ D |-> CtorValue(k)] : D \in SubsetsUpTo(RawKeys, MaxDrop)}
    \cup {[k \in RawKeys \cup {x} |-> CtorValue(k)] : x \in ExtraKeys}
    \cup {[k \in {x} |-> CtorValue(k)] : x \in Keys}
    \cup {EmptyDict}

\* the constructor contexts of the runs that update the base context
LifeDicts ==
    {EmptyDict,
     [k \in RawKeys |-> CtorValue(k)],
     [k \in RawKeys \cup {"dataset"} |-> CtorValue(k)]}

\* the keyword dicts on the key set S
DictsOn(S) ==
    {f \in [S -> UNION {CallValues(k) : k \in S}] : \A k \in S : f[k] \in CallValues(k)}

\* the keyword dicts of at most MaxOver keys among S, with or without a fullpath flag
CallDicts(S) ==
    UNION {DictsOn(T) : T \in SubsetsUpTo(S \ {"fullpath"}, MaxOver)}

WithFlag(S) ==
    CallDicts(S) \cup
    {SetItem(kw, "fullpath", f) : kw \in CallDicts(S), f \in CallValues("fullpath")}

\* the field names of a template
FieldsOf(tpl) == {tpl[i].key : i \in {j \in 1..Len(tpl) : IsFld(tpl[j])}}

\* the keys a path operation reads: its template's, those dataset and component
\* are composed from, and basedir
PathKeys(tpl) ==
    FieldsOf(tpl) \cup {"basedir"}
    \cup (IF "dataset" \in FieldsOf(tpl) THEN FieldsOf(dataset_format) ELSE {})
    \cup (IF "component" \in FieldsOf(tpl) THEN FieldsOf(component_format) ELSE {})

\* the yaml mappings update_base_dict loads: one overwrites a key, one sets a
\* composed key, one brings a key no template names
YamlFiles ==
    {[k \in {"evclass"} |-> PyStr(<<"clean">>)],
     [k \in {"dataset", "basedir"} |->
        IF k = "dataset" THEN PyStr(<<"P8", "_", "P302", "_", "1year", "_", "source">>)
        ELSE PyStr(<<"/archive">>)],
     [k \in {"nickname", "zcut"} |->
        IF k = "nickname" THEN PyStr(<<"run7">>) ELSE PyStr(<<"zmax95">>)]}

\* the templates generic() is given
GenericStrings ==
    {<<Lit(<<"plots/">>), Fld("dataset"), U, Fld("component"), Lit(<<".png">>)>>,
     <<Lit(<<"logs/">>), Fld("dataset"), U, Fld("coordsys"), Lit(<<".log">>)>>}

---------------------------------------------------------------------------
(* The state machine: a NameFactory is constructed, then any of its        *)
(* operations is called, any number of times.                              *)

\* no call is under way: the caller has taken the last outcome
Idle == [op |-> "idle", kwargs |-> EmptyDict]

Construct(kwargs) ==
    /\ base_dict = NameFactoryInit(kwargs)
    /\ ctor_kwargs = kwargs
    /\ yaml_files = <<>>
    /\ call = Idle
    /\ result = Return(None)

Init == \E kwargs \in CtorDicts : Construct(kwargs)

InitLife == \E kwargs \in LifeDicts : Construct(kwargs)

\* kwargs_copy = self.base_dict, without .copy(): the update with the call's
\* keywords lands on the base context itself
AfterCopy_Alias(base, kwargs) == Update(base, kwargs)

\* self.base_dict after "kwargs_copy = self.base_dict.copy()" and
\* "kwargs_copy.update(**kwargs)": the update lands on the copy, and the values
\* are strings, which nothing can change in place
AfterCopy(base, kwargs) == base

\* a call of a resolving operation: every one works on a copy of the base
\* context, itself or in the operations it calls
Resolve(op, kwargs, r) ==
    /\ call' = [op |-> op, kwargs |-> kwargs]
    /\ result' = r
    /\ base_dict' = AfterCopy(base_dict, kwargs)
    /\ UNCHANGED <<ctor_kwargs, yaml_files>>

\* the caller takes the outcome of the call, and may call again
TakeResult ==
    /\ call # Idle
    /\ call' = Idle
    /\ result' = Return(None)
    /\ UNCHANGED <<base_dict, ctor_kwargs, yaml_files>>

UpdateBaseDict ==
    /\ call = Idle
    /\ Len(yaml_files) < MaxUpdates
    /\ \E yaml \in YamlFiles :
        /\ base_dict' = update_base_dict(base_dict, yaml)
        /\ yaml_files' = Append(yaml_files, yaml)
        /\ call' = [op |-> "update_base_dict", kwargs |-> yaml]
        /\ result' = Return(None)
        /\ UNCHANGED ctor_kwargs

\* the keyword dicts each operation is called with: at most MaxOver of the keys
\* it reads and, for a path operation, the fullpath flag set or not
KwargsDataset == CallDicts(FieldsOf(dataset_format))
KwargsComponent == CallDicts(FieldsOf(component_format))
KwargsSourcekey == CallDicts(FieldsOf(sourcekey_format))
KwargsGalpropRingkey == CallDicts(FieldsOf(galprop_ringkey_format))
KwargsGalpropSourcekey == CallDicts(FieldsOf(galprop_sourcekey_format))
KwargsMergedSourcekey == CallDicts(FieldsOf(merged_sourcekey_format))
KwargsGalpropGasmap == WithFlag(PathKeys(galprop_gasmap_format))
KwargsMergedGasmap == WithFlag(PathKeys(merged_gasmap_format))
KwargsDiffuseTemplate == WithFlag(PathKeys(diffuse_template_format))
KwargsSpectralTemplate == WithFlag(PathKeys(spectral_template_format))
KwargsSrcmdlXml == WithFlag(PathKeys(srcmdl_xml_format))
KwargsNestedSrcmdlXml == WithFlag(PathKeys(nested_srcmdl_xml_format))
KwargsMasterSrcmdlXml == WithFlag(PathKeys(master_srcmdl_xml_format))
KwargsFt1file == WithFlag(PathKeys(ft1file_format))
KwargsFt2file == WithFlag(PathKeys(ft2file_format) \cup FieldsOf(dataset_format))
KwargsLtcube ==
    WithFlag(PathKeys(ltcube_format) \cup FieldsOf(dataset_format) \cup {"dataset"})
KwargsCcube == WithFlag(PathKeys(ccube_format))
KwargsBexpcube == WithFlag(PathKeys(bexpcube_format))
KwargsSrcmaps == WithFlag(PathKeys(srcmaps_format))
KwargsMcube == WithFlag(PathKeys(mcube_format))
KwargsMergedSrcmaps == WithFlag(PathKeys(merged_srcmaps_format))
KwargsCompSrcmdlXml == WithFlag(PathKeys(comp_srcmdl_xml_format))
KwargsFullpath == CallDicts(FieldsOf(fullpath_format))
\* irfs: at most MaxOver of the dataset keys, with or without irf_ver
\* datasets and a data_time that do not read as four tokens
OddDatasets ==
    {PyStr(<<"P8">>),
     PyStr(<<"P8", "_", "P302">>),
     PyStr(<<"P8", "_", "P302", "_", "8years">>),
     PyStr(<<"P8", "_", "P302", "_", "8years", "_", "source", "_", "v2">>),
     PyStr(<<"P8", "_", "P302", "_", "2009", "_", "2017", "_", "source">>)}

OddKwargs ==
    {[k \in {"dataset"} |-> d] : d \in OddDatasets}
    \cup {[k \in {"data_time"} |-> PyStr(<<"2009", "_", "2017">>)]}

KwargsIrfs ==
    LET some == CallDicts(FieldsOf(dataset_format) \cup {"dataset"}) \cup OddKwargs
    IN  some \cup {SetItem(kw, "irf_ver", v) : kw \in some, v \in CallValues("irf_ver")}
KwargsMakeFilenames ==
    WithFlag(PathKeys(ft1file_format) \cup PathKeys(ltcube_format) \cup PathKeys(mcube_format))
KwargsGeneric == CallDicts(UNION {PathKeys(g) : g \in GenericStrings} \ {"basedir"})

CallDataset ==
    /\ call = Idle
    /\ \E kw \in KwargsDataset :
            Resolve("dataset", kw, dataset(base_dict, kw))
CallComponent ==
    /\ call = Idle
    /\ \E kw \in KwargsComponent :
            Resolve("component", kw, component(base_dict, kw))
CallSourcekey ==
    /\ call = Idle
    /\ \E kw \in KwargsSourcekey :
            Resolve("sourcekey", kw, sourcekey(base_dict, kw))
CallGalpropRingkey ==
    /\ call = Idle
    /\ \E kw \in KwargsGalpropRingkey :
            Resolve("galprop_ringkey", kw, galprop_ringkey(base_dict, kw))
CallGalpropSourcekey ==
    /\ call = Idle
    /\ \E kw \in KwargsGalpropSourcekey :
            Resolve("galprop_sourcekey", kw, galprop_sourcekey(base_dict, kw))
CallMergedSourcekey ==
    /\ call = Idle
    /\ \E kw \in KwargsMergedSourcekey :
            Resolve("merged_sourcekey", kw, merged_sourcekey(base_dict, kw))

CallGalpropGasmap ==
    /\ call = Idle
    /\ \E kw \in KwargsGalpropGasmap :
            Resolve("galprop_gasmap", kw, galprop_gasmap(base_dict, kw))
CallMergedGasmap ==
    /\ call = Idle
    /\ \E kw \in KwargsMergedGasmap :
            Resolve("merged_gasmap", kw, merged_gasmap(base_dict, kw))
CallDiffuseTemplate ==
    /\ call = Idle
    /\ \E kw \in KwargsDiffuseTemplate :
            Resolve("diffuse_template", kw, diffuse_template(base_dict, kw))
CallSpectralTemplate ==
    /\ call = Idle
    /\ \E kw \in KwargsSpectralTemplate :
            Resolve("spectral_template", kw, spectral_template(base_dict, kw))
CallSrcmdlXml ==
    /\ call = Idle
    /\ \E kw \in KwargsSrcmdlXml :
            Resolve("srcmdl_xml", kw, srcmdl_xml(base_dict, kw))
CallNestedSrcmdlXml ==
    /\ call = Idle
    /\ \E kw \in KwargsNestedSrcmdlXml :
            Resolve("nested_srcmdl_xml", kw, nested_srcmdl_xml(base_dict, kw))
CallMasterSrcmdlXml ==
    /\ call = Idle
    /\ \E kw \in KwargsMasterSrcmdlXml :
            Resolve("master_srcmdl_xml", kw, master_srcmdl_xml(base_dict, kw))
CallFt1file ==
    /\ call = Idle
    /\ \E kw \in KwargsFt1file :
            Resolve("ft1file", kw, ft1file(base_dict, kw))
CallFt2file ==
    /\ call = Idle
    /\ \E kw \in KwargsFt2file :
            Resolve("ft2file", kw, ft2file(base_dict, kw))
CallLtcube ==
    /\ call = Idle
    /\ \E kw \in KwargsLtcube :
            Resolve("ltcube", kw, ltcube(base_dict, kw))
CallCcube ==
    /\ call = Idle
    /\ \E kw \in KwargsCcube :
            Resolve("ccube", kw, ccube(base_dict, kw))
CallBexpcube ==
    /\ call = Idle
    /\ \E kw \in KwargsBexpcube :
            Resolve("bexpcube", kw, bexpcube(base_dict, kw))
CallSrcmaps ==
    /\ call = Idle
    /\ \E kw \in KwargsSrcmaps :
            Resolve("srcmaps", kw, srcmaps(base_dict, kw))
CallMcube ==
    /\ call = Idle
    /\ \E kw \in KwargsMcube :
            Resolve("mcube", kw, mcube(base_dict, kw))
CallMergedSrcmaps ==
    /\ call = Idle
    /\ \E kw \in KwargsMergedSrcmaps :
            Resolve("merged_srcmaps", kw, merged_srcmaps(base_dict, kw))
CallCompSrcmdlXml ==
    /\ call = Idle
    /\ \E kw \in KwargsCompSrcmdlXml :
            Resolve("comp_srcmdl_xml", kw, comp_srcmdl_xml(base_dict, kw))
CallFullpath ==
    /\ call = Idle
    /\ \E kw \in KwargsFullpath :
            Resolve("fullpath", kw, fullpath(base_dict, kw))
CallGeneric ==
    /\ call = Idle
    /\ \E s \in GenericStrings : \E kw \in KwargsGeneric :
        /\ call' = [op |-> "generic", kwargs |-> kw, input_string |-> s]
        /\ result' = generic(s, base_dict, kw)
        /\ UNCHANGED <<base_dict, ctor_kwargs, yaml_files>>
CallIrfs ==
    /\ call = Idle
    /\ \E kw \in KwargsIrfs :
            Resolve("irfs", kw, irfs(base_dict, kw))
CallMakeFilenames ==
    /\ call = Idle
    /\ \E kw \in KwargsMakeFilenames :
            Resolve("make_filenames", kw, make_filenames(base_dict, kw))

Calls ==
    \/ CallDataset \/ CallComponent \/ CallSourcekey \/ CallGalpropRingkey
    \/ CallGalpropSourcekey \/ CallMergedSourcekey
    \/ CallGalpropGasmap \/ CallMergedGasmap \/ CallDiffuseTemplate
    \/ CallSpectralTemplate \/ CallSrcmdlXml \/ CallNestedSrcmdlXml
    \/ CallMasterSrcmdlXml \/ CallFt1file \/ CallFt2file \/ CallLtcube
    \/ CallCcube \/ CallBexpcube \/ CallSrcmaps \/ CallMcube
    \/ CallMergedSrcmaps \/ CallCompSrcmdlXml \/ CallFullpath \/ CallGeneric
    \/ CallIrfs \/ CallMakeFilenames

\* a factory that is constructed and then only resolves names
Next == Calls \/ TakeResult

Spec == Init /\ [][Next]_vars

\* a factory whose base context is also updated from yaml files
NextLife == UpdateBaseDict \/ Calls \/ TakeResult

SpecLife == InitLife /\ [][NextLife]_vars

---------------------------------------------------------------------------
(* What the claims are stated with: the context "B overridden by O" and    *)
(* the text a template denotes in a context that holds all its fields.     *)

\* B overridden by O
Merged(B, O) ==
    [k \in DOMAIN B \cup DOMAIN O |-> IF k \in DOMAIN O THEN O[k] ELSE B[k]]

\* the context of the call under way
Ctx == Merged(base_dict, call.kwargs)

\* the strings of the sequence ss, joined
RECURSIVE JoinAll(_)
JoinAll(ss) == IF ss = <<>> THEN <<>> ELSE Concat(JoinAll(SubSeq(ss, 1, Len(ss) - 1)), ss[Len(ss)])

\* tpl with every field replaced by its value in m, which holds them all
Filled(tpl, m) ==
    JoinAll([i \in 1..Len(tpl) |-> IF IsFld(tpl[i]) THEN m[tpl[i].key].s ELSE tpl[i].lit])

Complete(tpl, m) == FieldsOf(tpl) \subseteq DOMAIN m

KeyOps ==
    {"dataset", "component", "sourcekey", "galprop_ringkey", "galprop_sourcekey",
     "merged_sourcekey"}

KeyTemplate(op) ==
    CASE op = "dataset" -> dataset_format
      [] op = "component" -> component_format
      [] op = "sourcekey" -> sourcekey_format
      [] op = "galprop_ringkey" -> galprop_ringkey_format
      [] op = "galprop_sourcekey" -> galprop_sourcekey_format
      [] op = "merged_sourcekey" -> merged_sourcekey_format

---------------------------------------------------------------------------
\* C1: a key derivation (dataset, component, sourcekey, galprop_ringkey,
\* galprop_sourcekey, merged_sourcekey) never raises; it returns None exactly when
\* a field of its template is absent from the base context overridden by the
\* call's keywords, and otherwise its template with every field replaced by the
\* merged value (for dataset: data_pass, data_ver, data_time, evclass joined by _).
C1_KeyDerivation ==
    call.op \in KeyOps =>
        /\ result.kind = "return"
        /\ (result.val = None) <=> ~Complete(KeyTemplate(call.op), Ctx)
        /\ Complete(KeyTemplate(call.op), Ctx) =>
                result.val = PyStr(Filled(KeyTemplate(call.op), Ctx))
        /\ (call.op = "dataset" /\ Complete(dataset_format, Ctx)) =>
                result.val.s = Ctx["data_pass"].s \o <<"_">> \o Ctx["data_ver"].s
                               \o <<"_">> \o Ctx["data_time"].s \o <<"_">>
                               \o Ctx["evclass"].s

\* a dataset call whose merged context lacks a field returned None
C1_Witness ==
    /\ call.op = "dataset"
    /\ call.kwargs # EmptyDict
    /\ ~Complete(dataset_format, Ctx)
    /\ result = Return(None)

---------------------------------------------------------------------------
(* The path operations, by name.                                           *)

PlainOps ==
    {"galprop_gasmap", "merged_gasmap", "diffuse_template", "spectral_template",
     "srcmdl_xml", "nested_srcmdl_xml", "master_srcmdl_xml"}

\* the path operations that take the fullpath flag
FlagOps ==
    PlainOps \cup {"ft1file", "ft2file", "ltcube", "ccube", "bexpcube", "srcmaps",
                   "mcube", "merged_srcmaps", "comp_srcmdl_xml"}

FileOps == FlagOps \cup {"generic"}

\* the template of the path operation of call c
FileTemplate(c) ==
    CASE c.op = "galprop_gasmap" -> galprop_gasmap_format
      [] c.op = "merged_gasmap" -> merged_gasmap_format
      [] c.op = "diffuse_template" -> diffuse_template_format
      [] c.op = "spectral_template" -> spectral_template_format
      [] c.op = "srcmdl_xml" -> srcmdl_xml_format
      [] c.op = "nested_srcmdl_xml" -> nested_srcmdl_xml_format
      [] c.op = "master_srcmdl_xml" -> master_srcmdl_xml_format
      [] c.op = "ft1file" -> ft1file_format
      [] c.op = "ft2file" -> ft2file_format
      [] c.op = "ltcube" -> ltcube_format
      [] c.op = "ccube" -> ccube_format
      [] c.op = "bexpcube" -> bexpcube_format
      [] c.op = "srcmaps" -> srcmaps_format
      [] c.op = "mcube" -> mcube_format
      [] c.op = "merged_srcmaps" -> merged_srcmaps_format
      [] c.op = "comp_srcmdl_xml" -> comp_srcmdl_xml_format
      [] c.op = "generic" -> c.input_string

\* the outcome of the operation of call c on a factory of base context B, called
\* with the keywords O
Invoke(c, B, O) ==
    CASE c.op = "dataset" -> dataset(B, O)
      [] c.op = "component" -> component(B, O)
      [] c.op = "sourcekey" -> sourcekey(B, O)
      [] c.op = "galprop_ringkey" -> galprop_ringkey(B, O)
      [] c.op = "galprop_sourcekey" -> galprop_sourcekey(B, O)
      [] c.op = "merged_sourcekey" -> merged_sourcekey(B, O)
      [] c.op = "galprop_gasmap" -> galprop_gasmap(B, O)
      [] c.op = "merged_gasmap" -> merged_gasmap(B, O)
      [] c.op = "diffuse_template" -> diffuse_template(B, O)
      [] c.op = "spectral_template" -> spectral_template(B, O)
      [] c.op = "srcmdl_xml" -> srcmdl_xml(B, O)
      [] c.op = "nested_srcmdl_xml" -> nested_srcmdl_xml(B, O)
      [] c.op = "master_srcmdl_xml" -> master_srcmdl_xml(B, O)
      [] c.op = "ft1file" -> ft1file(B, O)
      [] c.op = "ft2file" -> ft2file(B, O)
      [] c.op = "ltcube" -> ltcube(B, O)
      [] c.op = "ccube" -> ccube(B, O)
      [] c.op = "bexpcube" -> bexpcube(B, O)
      [] c.op = "srcmaps" -> srcmaps(B, O)
      [] c.op = "mcube" -> mcube(B, O)
      [] c.op = "merged_srcmaps" -> merged_srcmaps(B, O)
      [] c.op = "comp_srcmdl_xml" -> comp_srcmdl_xml(B, O)
      [] c.op = "fullpath" -> fullpath(B, O)
      [] c.op = "generic" -> generic(c.input_string, B, O)
      [] c.op = "irfs" -> irfs(B, O)
      [] c.op = "make_filenames" -> make_filenames(B, O)

ResolvingOps ==
    KeyOps \cup FileOps \cup {"fullpath", "irfs", "make_filenames"}

\* m with dataset and component derived from their fields where m does not
\* supply them and holds all the fields
Derived(m) ==
    LET withDs == IF "dataset" \notin DOMAIN m /\ Complete(dataset_format, m)
                  THEN SetItem(m, "dataset", PyStr(Filled(dataset_format, m)))
                  ELSE m
    IN  IF "component" \notin DOMAIN m /\ Complete(component_format, m)
        THEN SetItem(withDs, "component", PyStr(Filled(component_format, m)))
        ELSE withDs

\* d without the key k
Without(d, k) == [x \in DOMAIN d \ {k} |-> d[x]]

---------------------------------------------------------------------------
\* C2: a path operation raises a missing-key error, and returns no string,
\* whenever a field of its template has no value after the base context is
\* overridden by the call's keywords and dataset and component are derived; in
\* particular it raises when dataset or component is neither supplied nor derivable.
C2_MissingFieldRaises ==
    (call.op \in FileOps /\ ~Complete(FileTemplate(call), Derived(Ctx))) =>
        (result.kind = "raise" /\ result.exc = "KeyError")

---------------------------------------------------------------------------
\* C3: calling an operation with keywords O on a factory of base context B gives
\* the same outcome (string, None or error) as calling it with the single context
\* "B overridden by O" on a factory whose base context is empty.
C3_MergeEquivalence ==
    call.op \in ResolvingOps =>
        result = Invoke(call, EmptyDict, Merged(base_dict, call.kwargs))

---------------------------------------------------------------------------
---------------------------------------------------------------------------
\* C5: for a dataset of four underscore-separated tokens t0_t1_t2_t3, passed as
\* dataset or derived from data_pass, data_ver, data_time and evclass, and a
\* supplied irf_ver, irfs returns family_evname_irfver when t0_t1 is a key of the
\* reprocessing table and t3 one of the event-class table, and raises a lookup
\* error otherwise.

\* the dataset irfs is about: the one passed, else the one the fields compose
IrfsDataset ==
    IF "dataset" \in DOMAIN call.kwargs THEN call.kwargs["dataset"].s
    ELSE Filled(dataset_format, Ctx)

HasIrfsDataset ==
    "dataset" \in DOMAIN call.kwargs \/ Complete(dataset_format, Ctx)

\* ds reads t0_t1_t2_t3
FourTokens(ds) ==
    /\ Len(ds) = 7
    /\ \A i \in 1..7 : (ds[i] = "_") <=> (i \in {2, 4, 6})

C5_IrfsLookup ==
    (/\ call.op = "irfs"
     /\ "irf_ver" \in DOMAIN call.kwargs
     /\ HasIrfsDataset
     /\ FourTokens(IrfsDataset)) =>
        LET ds == IrfsDataset
            pass == <<ds[1], "_", ds[3]>>
            evclass == <<ds[7]>>
        IN  IF pass \in DOMAIN DATASET_DICTIONARY
               /\ evclass \in DOMAIN EVCLASS_NAME_DICTIONARY
            THEN result = Return(PyStr(DATASET_DICTIONARY[pass] \o <<"_">>
                                       \o EVCLASS_NAME_DICTIONARY[evclass] \o <<"_">>
                                       \o call.kwargs["irf_ver"].s))
            ELSE result.kind = "raise" /\ result.exc = "KeyError"

\* irfs(irf_ver='V1') on a factory whose fields compose P8_P302_8years_source
\* returned P8R2_SOURCE_V1
C5_Witness ==
    /\ call.op = "irfs"
    /\ "dataset" \notin DOMAIN call.kwargs
    /\ HasIrfsDataset
    /\ IrfsDataset = <<"P8", "_", "P302", "_", "8years", "_", "source">>
    /\ result = Return(PyStr(<<"P8R2", "_", "SOURCE", "_", "V1">>))

---------------------------------------------------------------------------
\* C6: make_filenames returns, where its six operations all resolve, a mapping of
\* exactly the keys ft1file, ltcube, ccube, bexpcube, srcmaps, mcube, each to the
\* non-empty string the operation of that name returns for the same keywords; if
\* one of the six raises, make_filenames raises.
SixOps == {"ft1file", "ltcube", "ccube", "bexpcube", "srcmaps", "mcube"}

C6_MakeFilenames ==
    call.op = "make_filenames" =>
        LET each == [n \in SixOps |-> Invoke([op |-> n], base_dict, call.kwargs)]
        IN  IF \A n \in SixOps : each[n].kind = "return"
            THEN /\ result.kind = "return"
                 /\ result.val.t = "dict"
                 /\ DOMAIN result.val.d = SixOps
                 /\ \A n \in SixOps :
                        /\ result.val.d[n] = each[n].val
                        /\ result.val.d[n].t = "str"
                        /\ result.val.d[n].s # <<>>
            ELSE result.kind = "raise"

\* make_filenames returned its mapping of six paths
C6_Witness ==
    /\ call.op = "make_filenames"
    /\ result.kind = "return"
    /\ DOMAIN result.val.d = SixOps

---------------------------------------------------------------------------
\* C7: after construction with kwargs K and update_base_dict calls with the
\* mappings F1..Fn the base context is K overridden by F1, then F2, ..., then Fn
\* (a file's keys take the file's values, the other keys keep theirs), and every
\* resolution made after an update uses the updated value of every key that the
\* call does not override.

\* K overridden by the first n of the loaded mappings
RECURSIVE OverriddenBy(_, _, _)
OverriddenBy(K, files, n) ==
    IF n = 0 THEN K ELSE Merged(OverriddenBy(K, files, n - 1), files[n])

Folded == OverriddenBy(ctor_kwargs, yaml_files, Len(yaml_files))

\* the keys the loaded mappings have set
UpdatedKeys == UNION {DOMAIN yaml_files[i] : i \in 1..Len(yaml_files)}

\* the template the call under way fills
CallTemplate == IF call.op \in KeyOps THEN KeyTemplate(call.op) ELSE FileTemplate(call)

\* the base context is the constructor's, overridden by each file in turn
BaseIsFolded == base_dict = Folded

\* a call whose template names only keys that a file has set or that the call
\* passes returns the template filled with the call's values and, for the keys
\* the call does not pass, the files' latest values
C7_UpdateSeenByResolution ==
    /\ BaseIsFolded
    /\ (/\ call.op \in KeyOps \cup FileOps
        /\ ~Truthy(Get(call.kwargs, "fullpath", PyBool(FALSE)))
        /\ FieldsOf(CallTemplate) \subseteq UpdatedKeys \cup DOMAIN call.kwargs) =>
            result = Return(PyStr(Filled(CallTemplate, Merged(Folded, call.kwargs))))

---------------------------------------------------------------------------
(* fermipy/wcs_utils.py.                                                   *)
(*                                                                         *)
(* An axis label or a projection name is a sequence of one-character       *)
(* strings, so that Python's substring test is computed on the characters. *)
(* Sky coordinates and pixel mappings are computed by astropy; they are    *)
(* kept as terms recording the constructor and its arguments, so two       *)
(* of them are equal only when they were built the same way.  Python's     *)
(* indices start at 0 and the model's at 1: ctype[0] is ctype[1] here.     *)

\* bounds: the largest axis count of a transform, the largest pixel count
\* along one axis of a shape, the largest power of ten on an energy axis
MaxAxes == 4
MaxPix == 2
MaxExp == 5

PyNum(n) == [t |-> "num", n |-> n]
PyList(items) == [t |-> "list", items |-> items]

\* sub in s
Contains(sub, s) ==
    \E i \in 1..(Len(s) - Len(sub) + 1) : SubSeq(s, i, i + Len(sub) - 1) = sub

\* astropy.coordinates.SkyCoord(*args, frame=frame)
SkyCoord(args, frame) == [t |-> "SkyCoord", frame |-> frame, args |-> args]

\* skydir.transform_to(frame), also skydir.icrs and skydir.galactic
transform_to(skydir, frame) ==
    IF skydir.frame = frame THEN skydir ELSE SkyCoord(<<skydir>>, frame)

\* the longitude (axis 1) or latitude (axis 2) of skydir in degrees
Deg(skydir, axis) ==
    IF Len(skydir.args) = 2 THEN skydir.args[axis]
    ELSE [t |-> "deg", of |-> skydir, axis |-> axis]

\* astropy.wcs.WCS(naxis=naxis): blank labels, reference values 0, steps 1
WCS(naxis) ==
    [t |-> "WCS", naxis |-> naxis,
     ctype |-> [i \in 1..naxis |-> <<>>],
     crval |-> [i \in 1..naxis |-> PyNum(0)],
     crpix |-> [i \in 1..naxis |-> 0],
     cdelt |-> [i \in 1..naxis |-> 1]]

RA == <<"R", "A">>
GLON == <<"G", "L", "O", "N">>

\* create_wcs; the transform is rebuilt from its FITS header (line 81), which
\* keeps the axis count, the labels and the numbers of a transform whose
\* projection is one of the FITS codes
create_wcs(skydir, coordsys, projection, cdelt, crpix, naxis, energies) ==
    IF coordsys \notin {"CEL", "GAL"}
    THEN Raise("Exception", <<"Unrecognized coordinate system.">>)
    ELSE IF naxis < 2 THEN Raise("IndexError", <<"ctype[1]">>)
    ELSE
      LET cel == coordsys = "CEL"
          c == transform_to(skydir, IF cel THEN "icrs" ELSE "galactic")
          lon == IF cel THEN <<"R", "A", "-", "-", "-">>
                        ELSE <<"G", "L", "O", "N", "-">>
          lat == IF cel THEN <<"D", "E", "C", "-", "-">>
                        ELSE <<"G", "L", "A", "T", "-">>
          w == [WCS(naxis) EXCEPT !.ctype[1] = lon \o projection,
                                  !.ctype[2] = lat \o projection,
                                  !.crval[1] = Deg(c, 1),
                                  !.crval[2] = Deg(c, 2),
                                  !.crpix[1] = crpix,
                                  !.crpix[2] = crpix,
                                  !.cdelt[1] = -cdelt,
                                  !.cdelt[2] = cdelt]
      IN  IF naxis = 3 /\ energies.t # "none"
          THEN Return([w EXCEPT
                  !.crpix[3] = 1,
                  !.crval[3] = PyNum(10 ^ energies.items[1]),
                  !.cdelt[3] = 10 ^ energies.items[2] - 10 ^ energies.items[1],
                  !.ctype[3] = <<"E", "n", "e", "r", "g", "y">>])
          ELSE Return(w)

AIT == <<"A", "I", "T">>

\* SkyCoord.from_pixel(xp, yp, wcs, 0): one coordinate per pixel position, in
\* the frame of the transform
from_pixel(xp, yp, wcs) ==
    [k \in 1..Len(xp) |->
        SkyCoord(<<[t |-> "pix2world", wcs |-> wcs, x |-> xp[k], y |-> yp[k]]>>,
                 IF Contains(GLON, wcs.ctype[1]) THEN "galactic" ELSE "icrs")]

offset_to_skydir(skydir, offset_lon, offset_lat, coordsys, projection) ==
    LET w == create_wcs(skydir, coordsys, projection, 1, 1, 2, None)
    IN  IF w.kind = "raise" THEN w
        ELSE Return(from_pixel(<<offset_lon>>, <<offset_lat>>, w.val))

\* wcs.wcs_world2pix(lon, lat, 0) and wcs.wcs_pix2world(xpix, ypix, 0): astropy
\* takes two coordinates for a transform of two axes only
Mapping(fn, wcs, a, b) ==
    IF wcs.naxis # 2 THEN Raise("TypeError", <<"expected coordinates for each axis">>)
    ELSE Return(<<[t |-> fn, wcs |-> wcs, in |-> <<a, b>>, out |-> 1],
                  [t |-> fn, wcs |-> wcs, in |-> <<a, b>>, out |-> 2]>>)

UnrecognizedWCS == Raise("Exception", <<"Unrecognized WCS coordinate system.">>)

skydir_to_pix(skydir, wcs) ==
    IF Contains(RA, wcs.ctype[1])
    THEN IF skydir.frame # "icrs" THEN Raise("AttributeError", <<"ra">>)
         ELSE LET p == Mapping("world2pix", wcs, Deg(skydir, 1), Deg(skydir, 2))
              IN  IF p.kind = "raise" THEN p ELSE Return(PyList(p.val))
    ELSE IF Contains(GLON, wcs.ctype[1])
    THEN LET g == transform_to(skydir, "galactic")
             p == Mapping("world2pix", wcs, Deg(g, 1), Deg(g, 2))
         IN  IF p.kind = "raise" THEN p ELSE Return(PyList(p.val))
    ELSE UnrecognizedWCS

pix_to_skydir(xpix, ypix, wcs) ==
    IF Contains(RA, wcs.ctype[1])
    THEN LET p == Mapping("pix2world", wcs, xpix, ypix)
         IN  IF p.kind = "raise" THEN p ELSE Return(SkyCoord(p.val, "icrs"))
    ELSE IF Contains(GLON, wcs.ctype[1])
    THEN LET p == Mapping("pix2world", wcs, xpix, ypix)
         IN  IF p.kind = "raise" THEN p
             ELSE Return(transform_to(SkyCoord(p.val, "galactic"), "icrs"))
    ELSE UnrecognizedWCS

get_coordsys_NoRaise(wcs) ==
    IF Contains(GLON, wcs.ctype[1]) THEN Return(PyStr(<<"GAL">>))
    ELSE Return(PyStr(<<"CEL">>))

get_coordsys(wcs) ==
    IF Contains(RA, wcs.ctype[1]) THEN Return(PyStr(<<"CEL">>))
    ELSE IF Contains(GLON, wcs.ctype[1]) THEN Return(PyStr(<<"GAL">>))
    ELSE UnrecognizedWCS

get_projection(wcs) ==
    IF Contains(RA, wcs.ctype[1]) THEN Return(PyStr(<<"CEL">>))
    ELSE IF Contains(GLON, wcs.ctype[1]) THEN Return(PyStr(<<"GAL">>))
    ELSE UnrecognizedWCS

wcs_to_skydir(wcs) ==
    IF wcs.naxis < 2 THEN Raise("IndexError", <<"crval[1]">>)
    ELSE LET lon == wcs.crval[1]
             lat == wcs.crval[2]
             coordsys == get_coordsys(wcs)
         IN  IF coordsys.kind = "raise" THEN coordsys
             ELSE IF coordsys.val = PyStr(<<"GAL">>)
             THEN Return(transform_to(SkyCoord(<<lon, lat>>, "galactic"), "icrs"))
             ELSE Return(SkyCoord(<<lon, lat>>, "icrs"))

is_galactic(wcs) ==
    LET coordsys == get_coordsys(wcs)
    IN  IF coordsys.kind = "raise" THEN coordsys
        ELSE IF coordsys.val = PyStr(<<"GAL">>) THEN Return(PyBool(TRUE))
        ELSE IF coordsys.val = PyStr(<<"CEL">>) THEN Return(PyBool(FALSE))
        ELSE Raise("Exception", <<"Unsupported coordinate system">>)

\* "a is not None and b is not None" for two values read with config.get
Both_Either(config, a, b) ==
    Get(config, a, None).t # "none" \/ Get(config, b, None).t # "none"

Both(config, a, b) ==
    Get(config, a, None).t # "none" /\ Get(config, b, None).t # "none"

get_target_skydir(config, ref_skydir) ==
    LET ref == IF ref_skydir.t = "none"
               THEN SkyCoord(<<PyNum(0), PyNum(0)>>, "icrs") ELSE ref_skydir
        radec == Get(config, "radec", None)
    IN  IF radec.t = "str" THEN Return(SkyCoord(<<radec>>, "icrs"))
        ELSE IF radec.t = "list"
        THEN Return(SkyCoord(<<radec.items[1], radec.items[2]>>, "icrs"))
        ELSE IF Both(config, "ra", "dec")
        THEN Return(SkyCoord(<<Get(config, "ra", None), Get(config, "dec", None)>>, "icrs"))
        ELSE IF Both(config, "glon", "glat")
        THEN Return(transform_to(
                 SkyCoord(<<Get(config, "glon", None), Get(config, "glat", None)>>,
                          "galactic"), "icrs"))
        ELSE IF Both(config, "offset_ra", "offset_dec")
        THEN LET o == offset_to_skydir(ref, Get(config, "offset_ra", None),
                                       Get(config, "offset_dec", None), "CEL", AIT)
             IN  IF o.kind = "raise" THEN o ELSE Return(o.val[1])
        ELSE IF Both(config, "offset_glon", "offset_glat")
        THEN LET o == offset_to_skydir(ref, Get(config, "offset_glon", None),
                                       Get(config, "offset_glat", None), "GAL", AIT)
             IN  IF o.kind = "raise" THEN o ELSE Return(o.val[1])
        ELSE Return(ref)

\* Numbers in arrays are kept as twice their value, so that the centre of a
\* pixel, half a step from its edges, stays an integer; NaN is what numpy
\* gives for 0 * inf and inf - inf.
Twice(h) == [t |-> "num", twice |-> h]
NaN == [t |-> "nan"]
Array(shape, data) == [t |-> "array", shape |-> shape, data |-> data]

Abs(n) == IF n < 0 THEN -n ELSE n

\* np.log10 of a power of ten
Log10(n) == CHOOSE e \in 0..MaxExp : 10 ^ e = n

\* npix[::-1]
Reversed(s) == [i \in 1..Len(s) |-> s[Len(s) + 1 - i]]

\* np.linspace(-n / 2., n / 2., n + 1) * step
Edges(n, step) == [i \in 1..(n + 1) |-> Twice((2 * (i - 1) - n) * step)]

\* (np.linspace(0, n, n + 1)) * cdelt2 + np.log10(crval), with
\* cdelt2 = np.log10((cdelt + crval) / crval); a reference value of 0 makes
\* cdelt2 infinite and every edge NaN
LogEdges(n, cdelt, crval) ==
    IF crval = 0 THEN [i \in 1..(n + 1) |-> NaN]
    ELSE LET cdelt2 == Log10(cdelt + crval) - Log10(crval)
         IN  [i \in 1..(n + 1) |-> Twice(2 * ((i - 1) * cdelt2 + Log10(crval)))]

wcs_to_axes(w, npix) ==
    LET rev == Reversed(npix)
    IN  IF Len(rev) < 1 THEN Raise("IndexError", <<"npix[0]">>)
        ELSE IF Len(rev) < 2 THEN Raise("IndexError", <<"npix[1]">>)
        ELSE IF w.naxis < 2 THEN Raise("IndexError", <<"cdelt[1]">>)
        ELSE IF w.naxis < 3 THEN Raise("IndexError", <<"cdelt[2]">>)
        ELSE IF Len(rev) < 3 THEN Raise("IndexError", <<"npix[2]">>)
        ELSE Return(<<Edges(rev[1], Abs(w.cdelt[1])),
                      Edges(rev[2], Abs(w.cdelt[2])),
                      LogEdges(rev[3], w.cdelt[3], w.crval[3].n)>>)

\* 0.5 * (e[1:] + e[:-1])
Centers(e) ==
    [i \in 1..(Len(e) - 1) |->
        IF e[i].t = "nan" \/ e[i + 1].t = "nan" THEN NaN
        ELSE Twice((e[i].twice + e[i + 1].twice) \div 2)]

RECURSIVE Product(_)
Product(s) == IF s = <<>> THEN 1 ELSE Head(s) * Product(Tail(s))

\* np.ravel(np.ones(shape) * v[...]) with v laid along the given axis of a
\* three-axis shape: the entry at flat position p is v[index of p along axis]
Raveled(shape, v, axis) ==
    LET stride == IF axis = 1 THEN shape[2] * shape[3]
                  ELSE IF axis = 2 THEN shape[3] ELSE 1
    IN  [p \in 1..Product(shape) |-> v[(((p - 1) \div stride) % shape[axis]) + 1]]

\* wcs_to_coords; with two axes wcs_to_axes either raises or hands back three
\* vectors for the two names "y, x", so lines 248-254 are never reached
wcs_to_coords(w, shape) ==
    IF w.naxis \notin {2, 3}
    THEN Raise("Exception", <<"Wrong number of WCS axes">>)
    ELSE LET axes == wcs_to_axes(w, shape)
         IN  IF axes.kind = "raise" THEN axes
             ELSE IF w.naxis = 2
             THEN Raise("ValueError", <<"too many values to unpack">>)
             ELSE LET z == Centers(axes.val[1])
                      y == Centers(axes.val[2])
                      x == Centers(axes.val[3])
                  IN  Return(Array(<<3, Product(shape)>>,
                                   <<Raveled(shape, x, 1),
                                     Raveled(shape, y, 2),
                                     Raveled(shape, z, 3)>>))

---------------------------------------------------------------------------
(* The inputs of the WCS helpers.                                          *)

\* the projection codes of the FITS standard
Projections ==
    {
      <<"A", "Z", "P">>, <<"S", "Z", "P">>, <<"T", "A", "N">>, <<"S", "T", "G">>,
      <<"S", "I", "N">>, <<"A", "R", "C">>, <<"Z", "P", "N">>, <<"Z", "E", "A">>,
      <<"A", "I", "R">>, <<"C", "Y", "P">>, <<"C", "E", "A">>, <<"C", "A", "R">>,
      <<"M", "E", "R">>, <<"C", "O", "P">>, <<"C", "O", "E">>, <<"C", "O", "D">>,
      <<"C", "O", "O">>, <<"S", "F", "L">>, <<"P", "A", "R">>, <<"M", "O", "L">>,
      <<"A", "I", "T">>, <<"B", "O", "N">>, <<"P", "C", "O">>, <<"T", "S", "C">>,
      <<"C", "S", "C">>, <<"Q", "S", "C">>, <<"H", "P", "X">>, <<"X", "P", "H">> }

CoordsysValues == {"CEL", "GAL", "cel", "ICRS"}

SkyDirs == { SkyCoord(<<PyNum(84), PyNum(22)>>, "icrs"),
             SkyCoord(<<PyNum(0), PyNum(0)>>, "galactic") }

\* log10 of the energies of the first two planes, or no energies
EnergyChoices == {None, PyList(<<2, 3>>), PyList(<<2, 4, 5>>)}

\* transforms not built by create_wcs: blank ones of every axis count, and
\* an ecliptic one
OtherTransforms ==
    {WCS(n) : n \in 1..MaxAxes} \cup
    {[WCS(2) EXCEPT !.ctype[1] = <<"E", "L", "O", "N", "-", "C", "A", "R">>,
                    !.ctype[2] = <<"E", "L", "A", "T", "-", "C", "A", "R">>]}

Shapes == UNION {[1..n -> 1..MaxPix] : n \in 1..3}

ConfigKeys == {"ra", "dec", "glon", "glat",
               "offset_ra", "offset_dec", "offset_glon", "offset_glat"}

ConfigValue(k) ==
    CASE k = "ra" -> PyNum(0)
      [] k = "dec" -> PyNum(22)
      [] k = "glon" -> PyNum(184)
      [] k = "glat" -> PyNum(-6)
      [] k = "offset_ra" -> PyNum(1)
      [] k = "offset_dec" -> PyNum(2)
      [] k = "offset_glon" -> PyNum(3)
      [] k = "offset_glat" -> PyNum(4)

\* radec: not in the mapping, None, a string or a list of two numbers
RadecChoices == {"absent", "none", "str", "list"}

RadecValue(c) ==
    IF c = "none" THEN None
    ELSE IF c = "str" THEN PyStr(<<"05h34m32s +22d00m52s">>)
    ELSE PyList(<<PyNum(10), PyNum(-45)>>)

\* the configuration in which key k is left out, None or set as f[k] says
Config(f, radec) ==
    LET keys == {k \in ConfigKeys : f[k] # "absent"}
        rest == [k \in keys |-> IF f[k] = "none" THEN None ELSE ConfigValue(k)]
    IN  IF radec = "absent" THEN rest
        ELSE [k \in keys \cup {"radec"} |->
                 IF k = "radec" THEN RadecValue(radec) ELSE rest[k]]

RefSkyDirs == {None} \cup SkyDirs

---------------------------------------------------------------------------
(* The WCS helpers as a state machine: a caller builds a transform and     *)
(* passes it on to a helper, or passes a transform built elsewhere.        *)

InitWcs ==
    /\ base_dict = EmptyDict
    /\ ctor_kwargs = EmptyDict
    /\ yaml_files = <<>>
    /\ call = Idle
    /\ result = Return(None)

\* what a call of a WCS helper leaves alone
NoFactory == UNCHANGED <<base_dict, ctor_kwargs, yaml_files>>

CallCreateWcs ==
    /\ call = Idle
    /\ \E skydir \in SkyDirs, coordsys \in CoordsysValues,
          projection \in Projections, naxis \in 1..MaxAxes,
          energies \in EnergyChoices :
          /\ call' = [op |-> "create_wcs", skydir |-> skydir,
                      coordsys |-> coordsys, projection |-> projection,
                      naxis |-> naxis, energies |-> energies]
          /\ result' = create_wcs(skydir, coordsys, projection, 1, 1, naxis, energies)
    /\ NoFactory

\* the transforms a helper can be given now: the one create_wcs has just
\* returned, or one built elsewhere
AtHand ==
    IF call.op = "create_wcs" /\ result.kind = "return" THEN {result.val}
    ELSE IF call = Idle THEN OtherTransforms
    ELSE {}

\* the call of helper op on transform w with the other arguments args
Helper(op, w, args, r) ==
    /\ call' = [op |-> op, wcs |-> w, args |-> args, made |-> call]
    /\ result' = r
    /\ NoFactory

CallGetCoordsys == \E w \in AtHand : Helper("get_coordsys", w, <<>>, get_coordsys(w))

CallGetProjection == \E w \in AtHand : Helper("get_projection", w, <<>>, get_projection(w))

CallIsGalactic == \E w \in AtHand : Helper("is_galactic", w, <<>>, is_galactic(w))

CallWcsToSkydir == \E w \in AtHand : Helper("wcs_to_skydir", w, <<>>, wcs_to_skydir(w))

CallSkydirToPix ==
    \E w \in AtHand, skydir \in SkyDirs :
        Helper("skydir_to_pix", w, <<skydir>>, skydir_to_pix(skydir, w))

CallPixToSkydir ==
    \E w \in AtHand, xpix \in 0..1 :
        Helper("pix_to_skydir", w, <<xpix, 0>>, pix_to_skydir(xpix, 0, w))

CallWcsToAxes ==
    \E w \in AtHand, shape \in Shapes :
        Helper("wcs_to_axes", w, <<shape>>, wcs_to_axes(w, shape))

CallWcsToCoords ==
    \E w \in AtHand, shape \in Shapes :
        Helper("wcs_to_coords", w, <<shape>>, wcs_to_coords(w, shape))

CallGetTargetSkydir ==
    /\ call = Idle
    /\ \E f \in [ConfigKeys -> {"absent", "none", "value"}],
          radec \in RadecChoices, ref_skydir \in RefSkyDirs :
          /\ call' = [op |-> "get_target_skydir", config |-> Config(f, radec),
                      ref_skydir |-> ref_skydir]
          /\ result' = get_target_skydir(Config(f, radec), ref_skydir)
    /\ NoFactory

NextWcs ==
    \/ CallCreateWcs
    \/ CallGetCoordsys
    \/ CallGetProjection
    \/ CallIsGalactic
    \/ CallWcsToSkydir
    \/ CallSkydirToPix
    \/ CallPixToSkydir
    \/ CallWcsToAxes
    \/ CallWcsToCoords
    \/ CallGetTargetSkydir
    \/ TakeResult

SpecWcs == InitWcs /\ [][NextWcs]_vars


---------------------------------------------------------------------------
(* Claims on the WCS helpers, checked under SpecWcs.                       *)

\* whether key k of config holds a value
Given(config, k) == k \in DOMAIN config /\ config[k] # None

\* config without every key outside keys
Only(config, keys) == [k \in DOMAIN config \cap keys |-> config[k]]

Origin == SkyCoord(<<PyNum(0), PyNum(0)>>, "icrs")

\* C8: get_target_skydir takes the first source present in the order radec,
\* ra+dec, glon+glat, offset_ra+offset_dec, offset_glon+offset_glat, else the
\* reference direction (the origin (0,0) without one): its result is what the
\* first source present alone gives, whatever the lower sources hold and, for
\* radec, ra+dec and glon+glat, whatever the reference is; a pair with one
\* member missing or None is not present; ra+dec gives the equatorial point
\* (ra, dec).
C8_TargetPriority ==
    call.op = "get_target_skydir" =>
      LET c == call.config
          ref == call.ref_skydir
          radec == Given(c, "radec")
          radeg == Given(c, "ra") /\ Given(c, "dec")
          gal == Given(c, "glon") /\ Given(c, "glat")
          offcel == Given(c, "offset_ra") /\ Given(c, "offset_dec")
          offgal == Given(c, "offset_glon") /\ Given(c, "offset_glat")
      IN  /\ radec =>
               \A r \in RefSkyDirs :
                   result = get_target_skydir(Only(c, {"radec"}), r)
          /\ (~radec /\ radeg) =>
               /\ result = Return(SkyCoord(<<c["ra"], c["dec"]>>, "icrs"))
               /\ \A r \in RefSkyDirs :
                   result = get_target_skydir(Only(c, {"ra", "dec"}), r)
          /\ (~radec /\ ~radeg /\ gal) =>
               \A r \in RefSkyDirs :
                   result = get_target_skydir(Only(c, {"glon", "glat"}), r)
          /\ (~radec /\ ~radeg /\ ~gal /\ offcel) =>
               result = get_target_skydir(Only(c, {"offset_ra", "offset_dec"}), ref)
          /\ (~radec /\ ~radeg /\ ~gal /\ ~offcel /\ offgal) =>
               result = get_target_skydir(Only(c, {"offset_glon", "offset_glat"}), ref)
          /\ (~radec /\ ~radeg /\ ~gal /\ ~offcel /\ ~offgal) =>
               result = Return(IF ref = None THEN Origin ELSE ref)

\* ra and dec win over a complete galactic pair and complete offsets; here
\* with a reference given
C8_Witness ==
    /\ call.op = "get_target_skydir"
    /\ ~Given(call.config, "radec")
    /\ \A k \in ConfigKeys : Given(call.config, k)
    /\ call.ref_skydir # None
    /\ result = Return(SkyCoord(<<PyNum(0), PyNum(22)>>, "icrs"))

\* C9: wcs_to_coords with a 2-axis transform and a 2-element shape (N, M)
\* returns an array of 2 rows and N*M columns; with a 3-axis transform and a
\* 3-element shape it returns 3 rows and as many columns as the product of
\* the shape; with a transform of any other axis count it raises.
C9_CoordsShape ==
    call.op = "wcs_to_coords" =>
      LET w == call.wcs
          shape == call.args[1]
          Rows(n) == /\ result.kind = "return"
                     /\ result.val.shape = <<n, Product(shape)>>
                     /\ Len(result.val.data) = n
                     /\ \A i \in 1..n : Len(result.val.data[i]) = Product(shape)
      IN  /\ (w.naxis = 2 /\ Len(shape) = 2) => Rows(2)
          /\ (w.naxis = 3 /\ Len(shape) = 3) => Rows(3)
          /\ w.naxis \notin {2, 3} => result.kind = "raise"

\* the three-axis half of C9 alone
C9_ThreeAxes ==
    (call.op = "wcs_to_coords" /\ call.wcs.naxis = 3 /\ Len(call.args[1]) = 3) =>
        /\ result.kind = "return"
        /\ result.val.shape = <<3, Product(call.args[1])>>

\* C10: create_wcs raises the unrecognized-coordinate-system error for every
\* coordsys other than 'CEL' and 'GAL'; on a transform it builds for 'CEL' or
\* 'GAL' with any projection, get_coordsys returns that coordsys and
\* is_galactic returns true exactly for 'GAL'; on a transform whose first
\* label holds neither 'RA' nor 'GLON' the six helpers all raise.
WcsHelpers == {"get_coordsys", "get_projection", "is_galactic",
               "wcs_to_skydir", "skydir_to_pix", "pix_to_skydir"}

C10_FrameDetection ==
    /\ (call.op = "create_wcs" /\ call.coordsys \notin {"CEL", "GAL"}) =>
           result = Raise("Exception", <<"Unrecognized coordinate system.">>)
    /\ (call.op = "create_wcs" /\ result.kind = "return") =>
           /\ call.coordsys \in {"CEL", "GAL"}
           /\ get_coordsys(result.val) = Return(PyStr(<<call.coordsys>>))
           /\ is_galactic(result.val) = Return(PyBool(call.coordsys = "GAL"))
    /\ (call.op = "get_coordsys" /\ call.made.op = "create_wcs") =>
           result = Return(PyStr(<<call.made.coordsys>>))
    /\ (call.op = "is_galactic" /\ call.made.op = "create_wcs") =>
           result = Return(PyBool(call.made.coordsys = "GAL"))
    /\ (/\ call.op \in WcsHelpers
        /\ ~Contains(RA, call.wcs.ctype[1])
        /\ ~Contains(GLON, call.wcs.ctype[1])) =>
           result.kind = "raise"

\* is_galactic has answered True for a galactic transform built by create_wcs
C10_Witness ==
    /\ call.op = "is_galactic"
    /\ call.made.op = "create_wcs"
    /\ call.made.coordsys = "GAL"
    /\ result = Return(PyBool(TRUE))


---------------------------------------------------------------------------
(* Claims on the composed keys dataset and component in the path           *)
(* operations, checked under Spec.                                         *)

\* the path operations that set dataset, or dataset and component, before
\* they format
ComposedOps ==
    {"ft1file", "ltcube", "ccube", "bexpcube", "srcmaps", "mcube",
     "merged_srcmaps", "comp_srcmdl_xml", "generic"}

ComposedKeys == {"dataset", "component"}

\* the composed keys the template of the call under way names
UsedComposed == ComposedKeys \cap FieldsOf(FileTemplate(call))

\* C11: in ft1file, ltcube, ccube, bexpcube, srcmaps, mcube, merged_srcmaps,
\* comp_srcmdl_xml and generic, a dataset (resp. component) that the base
\* context overridden by the call's keywords already holds appears verbatim in
\* the path; only a missing one is derived from its fields.
C11_SuppliedKeyKept ==
    (/\ call.op \in ComposedOps
     /\ ~Truthy(Get(call.kwargs, "fullpath", PyBool(FALSE)))
     /\ UsedComposed \cap DOMAIN Ctx # {}
     /\ Complete(FileTemplate(call), Derived(Ctx))) =>
        result = Return(PyStr(Filled(FileTemplate(call), Derived(Ctx))))


\* the half of C11 on the call's keywords alone: a dataset or component passed
\* to the call appears verbatim
C11_CallTimeKept ==
    (/\ call.op \in ComposedOps
     /\ ~Truthy(Get(call.kwargs, "fullpath", PyBool(FALSE)))
     /\ UsedComposed \cap DOMAIN call.kwargs # {}
     /\ UsedComposed \cap DOMAIN base_dict = {}
     /\ Complete(FileTemplate(call), Derived(Ctx))) =>
        result = Return(PyStr(Filled(FileTemplate(call), Derived(Ctx))))


---------------------------------------------------------------------------
\* the fields dataset and component are composed from
Constituents == FieldsOf(dataset_format) \cup FieldsOf(component_format)

\* d without the keys in K
Dropping(d, K) == [k \in DOMAIN d \ K |-> d[k]]

\* the keys a call with pre-composed values leaves out: the constituents its
\* template does not name itself
LeftOut == Constituents \ FieldsOf(FileTemplate(call))

\* dataset = dataset(fields) and component = component(fields), composed
\* from the context of the call under way
Composed ==
    [k \in ComposedKeys |->
        IF k = "dataset" THEN dataset(base_dict, call.kwargs).val
        ELSE component(base_dict, call.kwargs).val]

\* C12: for an operation whose template names dataset or component and a
\* context holding the seven constituent fields (and no composed key), the
\* call with the raw fields has the outcome of the call that is passed
\* dataset = dataset(fields) and component = component(fields) and, of the
\* constituent fields, only those the template names itself.
C12_RawOrComposed ==
    (/\ call.op \in ComposedOps
     /\ UsedComposed # {}
     /\ Constituents \subseteq DOMAIN Ctx
     /\ ComposedKeys \cap DOMAIN Ctx = {}) =>
        result = Invoke(call, Dropping(base_dict, LeftOut),
                        Merged(Dropping(call.kwargs, LeftOut), Composed))

\* ccube was called with the raw fields, one of them passed to the call, and
\* returned a path
C12_Witness ==
    /\ call.op = "ccube"
    /\ Constituents \subseteq DOMAIN Ctx
    /\ ComposedKeys \cap DOMAIN Ctx = {}
    /\ DOMAIN call.kwargs \cap Constituents # {}
    /\ result.kind = "return"
    /\ result = Invoke(call, Dropping(base_dict, LeftOut),
                       Merged(Dropping(call.kwargs, LeftOut), Composed))


---------------------------------------------------------------------------
\* C13: ft2file returns 'ft2_<data_time>.lst' with <data_time> the value of
\* data_time in the base context overridden by the call's keywords; a
\* data_time held by the base context alone is used as it is, and neither the
\* dataset key nor the text 'None' takes its place.
C13_Ft2fileDataTime ==
    (/\ call.op = "ft2file"
     /\ ~Truthy(Get(call.kwargs, "fullpath", PyBool(FALSE)))
     /\ "data_time" \in DOMAIN Ctx) =>
        result = Return(PyStr(Filled(ft2file_format, Ctx)))

\* the half of C13 on the call's keywords: a data_time passed to the call is
\* the one in the path
C13_CallTimeDataTime ==
    (/\ call.op = "ft2file"
     /\ ~Truthy(Get(call.kwargs, "fullpath", PyBool(FALSE)))
     /\ "data_time" \in DOMAIN call.kwargs) =>
        result = Return(PyStr(Filled(ft2file_format, call.kwargs)))


---------------------------------------------------------------------------
\* the number of underscore-separated tokens of ds
TokenCount(ds) == Len(Split(ds))

\* C14: irfs raises, and returns no IRF string, for every dataset that is not
\* exactly four underscore-separated tokens: fewer than four, more than four
\* (as when data_time itself holds an underscore), or no dataset at all
\* because none was passed and none could be composed.
C14_IrfsTokenCount ==
    (/\ call.op = "irfs"
     /\ (HasIrfsDataset => TokenCount(IrfsDataset) # 4)) =>
        result.kind = "raise"

\* the half of C14 on fewer than four tokens and on no dataset
C14_TooFewTokens ==
    (/\ call.op = "irfs"
     /\ (HasIrfsDataset => TokenCount(IrfsDataset) < 4)) =>
        result.kind = "raise"


---------------------------------------------------------------------------
\* C15: no resolving operation (key derivations, path operations, irfs,
\* fullpath, generic, make_filenames) changes the base context, whether it
\* returns a string, returns None or raises: after any sequence of calls the
\* base context is what the constructor and the update_base_dict calls made it,
\* so the outcome of a call is the one its arguments have on that context,
\* whatever was called before.
C15_BaseUntouched ==
    /\ base_dict = Folded
    /\ call.op \in ResolvingOps => result = Invoke(call, Folded, call.kwargs)

\* after an update, a call that overrides a key of the base context with another
\* value has raised and left the base context as it was
C15_Witness ==
    /\ yaml_files # <<>>
    /\ call.op \in ResolvingOps
    /\ \E k \in DOMAIN call.kwargs \cap DOMAIN base_dict : call.kwargs[k] # base_dict[k]
    /\ result.kind = "raise"
    /\ base_dict = Folded

===========================================================================
